---- MODULE Spec2Model ----
(***************************************************************************)
(* Model of exercises/deploy.go: a scripted update of the "redis"          *)
(* deployment followed by a rollback.  main takes a copy of the            *)
(* deployment, checks that the pods' containers are running, deploys a     *)
(* new image through deploy (retry.RetryOnConflict around a                *)
(* Get-modify-Update cycle), waits in waitForPodContainersRunning, then    *)
(* deploys the original image again and waits a second time.               *)
(*                                                                         *)
(* The deployment record lives in the API server and is shared with other  *)
(* writers; the pod list is whatever the API server reports at each query. *)
(***************************************************************************)
EXTENDS Integers, Sequences, FiniteSets, TLC

(* ---------------------------------------------------------------------- *)
(* Bounds of the model                                                     *)
(* ---------------------------------------------------------------------- *)
MaxPods == 2
MaxLatency == 1
MaxExtWrites == 5

(* ---------------------------------------------------------------------- *)
(* Program constants                                                       *)
(* ---------------------------------------------------------------------- *)
\* deploy.go:18, in seconds
deployRunningThreshold == 10
\* deploy.go:19, in seconds
deployRunningCheckInterval == 2
\* deploy.go:73, retry.DefaultRetry: the attempts RetryOnConflict makes
DefaultRetrySteps == 5
\* deployments/redis.yml:9
ManifestReplicas == 2
\* deployments/redis.yml:17, the one container of the pod template
TemplateContainers == 1

ManifestImage == "redis:3"
NewImage == "redis:doesntexist"
ExternalImage == "redis:4"
Images == {ManifestImage, NewImage, ExternalImage}

Nil == [nil |-> TRUE]

VARIABLES
    pc,                 \* position of main
    outcome,            \* how main ended: "none" while it runs
    store,              \* the deployment record held by the API server
    originalDeployment, \* main's copy of the deployment (line 36)
    got,                \* deploy's closure: the object as Get returned it
    result,             \* deploy's closure: the object after op
    attempt,            \* attempts RetryOnConflict has made in this call
    deployErr,          \* what the deploy call returned
    before,             \* the record as it was when an Update was accepted
    written,            \* the record as that Update left it
    now,                \* seconds since the current wait began
    polls,              \* pod queries of the current wait or pre-check
    errStreak,          \* failed pod queries in a row, up to the last one
    tolerated,          \* errStreak before the query that ended the wait
    lastList,           \* the API server's answer to the wait's last query
    waitErr,            \* what the wait returned
    baseline,           \* what the pre-check's query showed
    fwdErr,             \* err of line 52
    rbErr,              \* err of line 65
    writeLog,           \* the deploy calls whose Update was accepted
    extWrites           \* Updates by other clients so far

vars == <<pc, outcome, store, originalDeployment, got, result, attempt,
          deployErr, before, written, now, polls, errStreak, tolerated,
          lastList, waitErr, baseline, fwdErr, rbErr, writeLog, extWrites>>

deployVars == <<got, result, attempt, deployErr, before, written>>
waitVars == <<now, polls, errStreak, tolerated, lastList, waitErr>>

(* ---------------------------------------------------------------------- *)
(* The pod list: what clientSet.CoreV1().Pods("default").List returns      *)
(* ---------------------------------------------------------------------- *)
SeqsUpTo(S, n) == UNION {[1..k -> S] : k \in 0..n}

\* one pod's Status.ContainerStatuses, as the sequence of their Ready flags:
\* a pod of the template reports its one container, or none yet
ContainerStatuses == SeqsUpTo(BOOLEAN, TemplateContainers)

\* pods.Items
PodItems == SeqsUpTo(ContainerStatuses, MaxPods)

\* (pods, err) of the List call
ListResponses ==
    {[err |-> TRUE, items |-> <<>>]} \cup
    {[err |-> FALSE, items |-> l] : l \in PodItems}

NoList == [err |-> FALSE, items |-> <<>>]

\* podContainersRunning, had a pod without container statuses counted as
\* not ready
podContainersRunning_NoStatusNotReady(resp) ==
    IF resp.err
    THEN [running |-> FALSE, err |-> TRUE]
    ELSE IF \E i \in 1..Len(resp.items) :
               \/ Len(resp.items[i]) = 0
               \/ \E j \in 1..Len(resp.items[i]) : ~resp.items[i][j]
         THEN [running |-> FALSE, err |-> FALSE]
         ELSE [running |-> TRUE, err |-> FALSE]

\* podContainersRunning (lines 109-125) on the answer of its List call
podContainersRunning(resp) ==
    IF resp.err
    THEN [running |-> FALSE, err |-> TRUE]
    ELSE IF \E i \in 1..Len(resp.items) :
               \E j \in 1..Len(resp.items[i]) : ~resp.items[i][j]
         THEN [running |-> FALSE, err |-> FALSE]
         ELSE [running |-> TRUE, err |-> FALSE]

\* BaselineOk, had line 42 tested only err
BaselineOk_IgnoresRunning(r) == ~r.err

\* BaselineOk, had line 42 gone on when the query failed
BaselineOk_ErrIsOk(r) == r.running \/ r.err

\* line 42: the condition under which main goes on after the pre-check
BaselineOk(r) == r.running /\ ~r.err

\* After, had line 102 timed out at the deadline itself
After_AtOrAfter(t, end) == t >= end

\* line 102: time.Now().After(end)
After(t, end) == t > end

\* Tick, had the timer been set to the threshold
Tick_Threshold(t, lat) == t + deployRunningThreshold + lat

\* lines 90-93: the time after the timer of the interval has fired and the
\* query has been answered, both started at t, lat being their latency
Tick(t, lat) == t + deployRunningCheckInterval + lat

\* line 87: end, with the wait's start as time 0
WaitEnd == 0 + deployRunningThreshold

\* PollVerdict, had the loop returned on a failed query
PollVerdict_AbortsOnError(r, t) ==
    IF r.running THEN "nil"
    ELSE IF r.err \/ After(t, WaitEnd) THEN "timeout"
    ELSE "continue"

\* PollVerdict, had the loop tested the deadline before the result
PollVerdict_DeadlineFirst(r, t) ==
    IF After(t, WaitEnd) THEN "timeout"
    ELSE IF r.running THEN "nil"
    ELSE "continue"

\* lines 93-104: what one iteration of the wait's loop does with the result
\* r of podContainersRunning at time t
PollVerdict(r, t) ==
    IF r.running THEN "nil"
    ELSE IF After(t, WaitEnd) THEN "timeout"
    ELSE "continue"

(* ---------------------------------------------------------------------- *)
(* The deployment object                                                   *)
(* ---------------------------------------------------------------------- *)
Descriptor(image, replicas, rv) ==
    [image |-> image, replicas |-> replicas, rv |-> rv]

\* lines 46-48: the op of the forward deploy
ForwardOp(d) == [d EXCEPT !.image = NewImage]

\* RollbackOp, had the op left the image as it was
RollbackOp_KeepsImage(d, original) == d

\* RollbackOp, had the op set the image of the manifest
RollbackOp_Manifest(d, original) == [d EXCEPT !.image = ManifestImage]

\* RollbackOp, had the op put back the whole copy instead of its image
RollbackOp_WholeCopy(d, original) == [original EXCEPT !.rv = d.rv]

\* lines 59-61: the op of the rollback deploy
RollbackOp(d, original) == [d EXCEPT !.image = original.image]

\* the op main passes to the deploy call in progress
Op(d) == IF pc = "fwd_deploy" THEN ForwardOp(d)
         ELSE RollbackOp(d, originalDeployment)

\* IsConflict, had the Update carried no resourceVersion to compare
IsConflict_Never(obj, cur) == FALSE

\* line 81: the API server rejects an Update whose resourceVersion, the
\* one of the object got at line 74, is stale
IsConflict(obj, cur) == obj.rv # cur.rv

\* the record after the API server accepted an Update of obj
Accepted(obj) == [obj EXCEPT !.rv = obj.rv + 1]

\* Exhausted, had deploy called Update without retrying
Exhausted_OneShot(made) == made >= 1

\* Exhausted, had the retry given up one attempt early
Exhausted_Early(made) == made >= DefaultRetrySteps - 1

\* line 73: RetryOnConflict gives up once the attempts made reach the steps
Exhausted(made) == made >= DefaultRetrySteps

\* DeployFailed, had main dropped the error of deploy
DeployFailed_Never(e) == FALSE

\* lines 48 and 61: err != nil
DeployFailed(e) == e # "nil"

\* RollbackWaitFailed, had main not looked at the second wait's err
RollbackWaitFailed_Never(e) == FALSE

\* line 66: err != nil
RollbackWaitFailed(e) == e # "nil"

\* the record main finds: the manifest's, or one another client has changed
InitialRecords ==
    {Descriptor(image, replicas, 1) :
        image \in {ManifestImage, ExternalImage},
        replicas \in {ManifestReplicas, ManifestReplicas + 1}}

Terminated == pc \in {"done", "panic"}
InDeploy == pc \in {"fwd_deploy", "rb_deploy"}
InWait == pc \in {"fwd_wait", "rb_wait"}

Init ==
    /\ pc = "get_original"
    /\ outcome = "none"
    /\ store \in InitialRecords
    /\ originalDeployment = Nil
    /\ got = Nil
    /\ result = Nil
    /\ attempt = 0
    /\ deployErr = "unset"
    /\ before = Nil
    /\ written = Nil
    /\ now = 0
    /\ polls = 0
    /\ errStreak = 0
    /\ tolerated = 0
    /\ lastList = NoList
    /\ waitErr = "unset"
    /\ baseline = "unset"
    /\ fwdErr = "unset"
    /\ rbErr = "unset"
    /\ writeLog = <<>>
    /\ extWrites = 0

\* main panics: the process ends there
Panic(why) ==
    /\ pc' = "panic"
    /\ outcome' = why

\* the locals of deploy and of its closure, as a call begins and once the
\* caller has taken its result
DeployLocals ==
    /\ got' = Nil
    /\ result' = Nil
    /\ attempt' = 0
    /\ deployErr' = "unset"
    /\ before' = Nil
    /\ written' = Nil

\* the locals of waitForPodContainersRunning, likewise (line 87)
WaitLocals ==
    /\ now' = 0
    /\ polls' = 0
    /\ errStreak' = 0
    /\ tolerated' = 0
    /\ lastList' = NoList
    /\ waitErr' = "unset"

\* GetOriginal, had main called deploy before its check of the pods
GetOriginal_ThenDeploy ==
    /\ pc = "get_original"
    /\ originalDeployment' = store
    /\ pc' = "fwd_deploy"
    /\ UNCHANGED <<outcome, store, deployVars, waitVars, baseline, fwdErr,
                   rbErr, writeLog, extWrites>>

(* ---------------------------------------------------------------------- *)
(* main, lines 35-39: get a copy of the current deployment                 *)
(* ---------------------------------------------------------------------- *)
GetOriginal ==
    /\ pc = "get_original"
    /\ \E err \in BOOLEAN :
         IF err
         THEN /\ Panic("GetOriginalError")
              /\ UNCHANGED originalDeployment
         ELSE /\ originalDeployment' = store
              /\ pc' = "precheck"
              /\ UNCHANGED outcome
    /\ UNCHANGED <<store, deployVars, waitVars, baseline, fwdErr, rbErr,
                   writeLog, extWrites>>

(* ---------------------------------------------------------------------- *)
(* main, lines 41-44: verify the current containers are running            *)
(* ---------------------------------------------------------------------- *)
PreCheck ==
    /\ pc = "precheck"
    /\ \E resp \in ListResponses :
         /\ baseline' =
              IF resp.err THEN "error"
              ELSE IF \E i \in 1..Len(resp.items) :
                         \E j \in 1..Len(resp.items[i]) : ~resp.items[i][j]
                   THEN "notready"
                   ELSE "ready"
         /\ IF BaselineOk(podContainersRunning(resp))
            THEN /\ pc' = "fwd_deploy"
                 /\ UNCHANGED outcome
            ELSE Panic("PreconditionFailed")
    /\ polls' = 1
    /\ DeployLocals
    /\ UNCHANGED <<store, originalDeployment, now, errStreak, tolerated,
                   lastList, waitErr, fwdErr, rbErr, writeLog, extWrites>>

(* ---------------------------------------------------------------------- *)
(* deploy, lines 74-79: get the latest version and apply op to it          *)
(* ---------------------------------------------------------------------- *)
DeployGet ==
    /\ InDeploy
    /\ result = Nil
    /\ \E err \in BOOLEAN :
         IF err
         THEN /\ Panic("GetLatestPanic")
              /\ UNCHANGED <<got, result>>
         ELSE /\ got' = store
              /\ result' = Op(store)
              /\ UNCHANGED <<pc, outcome>>
    /\ UNCHANGED <<store, originalDeployment, attempt, deployErr, before,
                   written, waitVars, baseline, fwdErr, rbErr, writeLog,
                   extWrites>>

\* deploy returns e to main
DeployReturns(e) ==
    /\ deployErr' = e
    /\ pc' = IF pc = "fwd_deploy" THEN "fwd_deployed" ELSE "rb_deployed"

(* ---------------------------------------------------------------------- *)
(* deploy, lines 81-82, and what RetryOnConflict does with the error       *)
(* ---------------------------------------------------------------------- *)
DeployUpdate ==
    /\ InDeploy
    /\ result # Nil
    /\ \E fail \in BOOLEAN :
         IF fail
         THEN \* an error that is not a conflict ends the retry loop
              /\ DeployReturns("UpdateError")
              /\ UNCHANGED <<store, writeLog, before, written, got, result>>
         ELSE IF IsConflict(result, store)
         THEN /\ UNCHANGED <<store, writeLog, before, written>>
              /\ IF Exhausted(attempt + 1)
                 THEN /\ DeployReturns("Conflict")
                      /\ UNCHANGED <<got, result>>
                 ELSE /\ got' = Nil
                      /\ result' = Nil
                      /\ UNCHANGED <<pc, deployErr>>
         ELSE /\ store' = Accepted(result)
              /\ before' = store
              /\ written' = Accepted(result)
              /\ writeLog' = Append(writeLog, pc)
              /\ DeployReturns("nil")
              /\ UNCHANGED <<got, result>>
    /\ attempt' = attempt + 1
    /\ UNCHANGED <<outcome, originalDeployment, waitVars, baseline, fwdErr,
                   rbErr, extWrites>>

(* ---------------------------------------------------------------------- *)
(* main, lines 48-50 and 61-63: the error of deploy                        *)
(* ---------------------------------------------------------------------- *)
AfterDeploy ==
    /\ pc \in {"fwd_deployed", "rb_deployed"}
    /\ IF DeployFailed(deployErr)
       THEN /\ Panic(deployErr)
            /\ UNCHANGED <<deployVars, waitVars>>
       ELSE /\ pc' = IF pc = "fwd_deployed" THEN "fwd_wait" ELSE "rb_wait"
            /\ WaitLocals
            /\ DeployLocals
            /\ UNCHANGED outcome
    /\ UNCHANGED <<store, originalDeployment, baseline, fwdErr, rbErr,
                   writeLog, extWrites>>

(* ---------------------------------------------------------------------- *)
(* waitForPodContainersRunning, lines 89-105: one iteration of the loop    *)
(* ---------------------------------------------------------------------- *)
WaitReturns(e) ==
    /\ waitErr' = e
    /\ pc' = IF pc = "fwd_wait" THEN "fwd_waited" ELSE "rb_waited"

WaitPoll ==
    /\ InWait
    /\ \E lat \in 0..MaxLatency, resp \in ListResponses :
         LET t == Tick(now, lat)
             v == PollVerdict(podContainersRunning(resp), t)
         IN  /\ now' = t
             /\ lastList' = resp
             /\ polls' = polls + 1
             /\ errStreak' = IF resp.err THEN errStreak + 1 ELSE 0
             /\ IF v = "continue"
                THEN UNCHANGED <<pc, waitErr, tolerated>>
                ELSE /\ WaitReturns(v)
                     /\ tolerated' = errStreak
    /\ UNCHANGED <<outcome, store, originalDeployment, deployVars, baseline,
                   fwdErr, rbErr, writeLog, extWrites>>

\* AfterForwardWait, had main returned after "Deploy successful"
AfterForwardWait_Returns ==
    /\ pc = "fwd_waited"
    /\ fwdErr' = waitErr
    /\ IF waitErr = "nil"
       THEN /\ pc' = "done"
            /\ outcome' = "Success"
       ELSE /\ pc' = "rb_deploy"
            /\ UNCHANGED outcome
    /\ DeployLocals
    /\ WaitLocals
    /\ UNCHANGED <<store, originalDeployment, baseline, rbErr, writeLog,
                   extWrites>>

(* ---------------------------------------------------------------------- *)
(* main, lines 52-56: after the first wait                                 *)
(* ---------------------------------------------------------------------- *)
AfterForwardWait ==
    /\ pc = "fwd_waited"
    /\ fwdErr' = waitErr
    /\ pc' = "rb_deploy"
    /\ DeployLocals
    /\ WaitLocals
    /\ UNCHANGED <<outcome, store, originalDeployment, baseline, rbErr,
                   writeLog, extWrites>>

(* ---------------------------------------------------------------------- *)
(* main, lines 65-69: after the second wait                                *)
(* ---------------------------------------------------------------------- *)
AfterRollbackWait ==
    /\ pc = "rb_waited"
    /\ rbErr' = waitErr
    /\ IF RollbackWaitFailed(waitErr)
       THEN Panic("RollbackFailed")
       ELSE /\ pc' = "done"
            /\ outcome' = "RolledBack"
    /\ WaitLocals
    /\ UNCHANGED <<store, originalDeployment, deployVars, baseline, fwdErr,
                   writeLog, extWrites>>

(* ---------------------------------------------------------------------- *)
(* Another client of the API server updates the deployment: its image or   *)
(* its replicas.  What others wrote before main first read the record is   *)
(* in the initial state; a write at a point where a call has just returned *)
(* or before the pre-check, which does not read the record, is the same as *)
(* a write at the start of what main does next.                            *)
(* ---------------------------------------------------------------------- *)
ExternalWrite ==
    /\ InDeploy \/ InWait
    /\ extWrites < MaxExtWrites
    /\ \E d \in {[store EXCEPT !.image = ExternalImage],
                 [store EXCEPT !.replicas =
                      IF @ = ManifestReplicas THEN ManifestReplicas + 1
                      ELSE ManifestReplicas]} :
         /\ d # store
         /\ store' = [d EXCEPT !.rv = store.rv + 1]
    /\ extWrites' = extWrites + 1
    /\ UNCHANGED <<pc, outcome, originalDeployment, deployVars, waitVars,
                   baseline, fwdErr, rbErr, writeLog>>

Next ==
    \/ GetOriginal
    \/ PreCheck
    \/ DeployGet
    \/ DeployUpdate
    \/ AfterDeploy
    \/ WaitPoll
    \/ AfterForwardWait
    \/ AfterRollbackWait
    \/ ExternalWrite

Spec == Init /\ [][Next]_vars

(* ---------------------------------------------------------------------- *)
(* deploy and waitForPodContainersRunning on their own: each begins in a   *)
(* state in which main calls it when no other client has written so far.   *)
(* ---------------------------------------------------------------------- *)
\* main at the call p, with original its copy, s the record, e the err of
\* line 52 and log its accepted Updates
AtCall(p, s, original, e, log) ==
    /\ pc = p
    /\ outcome = "none"
    /\ store = s
    /\ originalDeployment = original
    /\ got = Nil
    /\ result = Nil
    /\ attempt = 0
    /\ deployErr = "unset"
    /\ before = Nil
    /\ written = Nil
    /\ now = 0
    /\ polls = IF p = "fwd_deploy" THEN 1 ELSE 0
    /\ errStreak = 0
    /\ tolerated = 0
    /\ lastList = NoList
    /\ waitErr = "unset"
    /\ baseline = "ready"
    /\ fwdErr = e
    /\ rbErr = "unset"
    /\ writeLog = log
    /\ extWrites = 0

\* the record after the forward deploy of main, which found d
Forwarded(d) == Accepted(ForwardOp(d))

\* the record after the rollback deploy that followed
Restored(d) == Accepted(RollbackOp(Forwarded(d), d))

InitDeploy ==
    \E d \in InitialRecords :
        \/ AtCall("fwd_deploy", d, d, "unset", <<>>)
        \/ \E e \in {"nil", "timeout"} :
              AtCall("rb_deploy", Forwarded(d), d, e, <<"fwd_deploy">>)

InitWait ==
    \E d \in InitialRecords :
        \/ AtCall("fwd_wait", Forwarded(d), d, "unset", <<"fwd_deploy">>)
        \/ \E e \in {"nil", "timeout"} :
              AtCall("rb_wait", Restored(d), d, e,
                     <<"fwd_deploy", "rb_deploy">>)

NextDeploy ==
    \/ DeployGet
    \/ DeployUpdate
    \/ ExternalWrite

\* a call of deploy among other clients; the calls it makes return
DeploySpec ==
    /\ InitDeploy
    /\ [][NextDeploy]_vars
    /\ WF_vars(DeployGet) /\ WF_vars(DeployUpdate)

\* a call of waitForPodContainersRunning; its timer fires
WaitSpec ==
    /\ InitWait
    /\ [][WaitPoll]_vars
    /\ WF_vars(WaitPoll)

\* main is scheduled and every timer fires; other clients need not act
FairSpec ==
    /\ Spec
    /\ WF_vars(GetOriginal) /\ WF_vars(PreCheck) /\ WF_vars(DeployGet)
    /\ WF_vars(DeployUpdate) /\ WF_vars(AfterDeploy) /\ WF_vars(WaitPoll)
    /\ WF_vars(AfterForwardWait) /\ WF_vars(AfterRollbackWait)

(* ====================================================================== *)
(* Properties                                                              *)
(* ====================================================================== *)

\* an answer that shows at least one pod and every container flag true
ShownReady(resp) ==
    /\ ~resp.err
    /\ Len(resp.items) > 0
    /\ \A i \in 1..Len(resp.items) :
         \A j \in 1..Len(resp.items[i]) : resp.items[i][j]

\* an answer that shows a container flag false
ShownNotReady(resp) ==
    /\ ~resp.err
    /\ \E i \in 1..Len(resp.items) :
         \E j \in 1..Len(resp.items[i]) : ~resp.items[i][j]

InOrAfterWait == pc \in {"fwd_wait", "fwd_waited", "rb_wait", "rb_waited"}
DeployReturned == pc \in {"fwd_deployed", "rb_deployed"}

\* the deploy call that is in progress or has just returned
CallPhase == IF pc \in {"fwd_deploy", "fwd_deployed"} THEN "fwd_deploy"
             ELSE "rb_deploy"

\* the Updates of main's call ph that the API server accepted
WritesOf(ph) == Cardinality({i \in 1..Len(writeLog) : writeLog[i] = ph})

\* every version of the record after the first is an external write or an
\* accepted Update of main
VersionsAccounted == store.rv = 1 + extWrites + Len(writeLog)

(* C1: when the first wait returns nil the rollout is over with outcome    *)
(* Success: main has ended, it made no rollback Update, and with no other  *)
(* writer the record's image is the new image.                             *)
C1_SuccessEndsRollout ==
    fwdErr = "nil" =>
        /\ pc = "done"
        /\ outcome = "Success"
        /\ WritesOf("rb_deploy") = 0
        /\ extWrites = 0 => store.image = NewImage

(* C2: a poll of the wait ends it with nil exactly when the answer shows   *)
(* a non-empty pod list with every container flag true.                    *)
C2_SuccessIffNonEmptyReady ==
    (InOrAfterWait /\ polls > 0) =>
        ((waitErr = "nil") <=> ShownReady(lastList))

(* C3: when the pre-check's query shows a pod that is not fully ready,     *)
(* main ends with PreconditionFailed, deploy was never entered and no      *)
(* version of the record comes from main.                                  *)
C3_UnhealthyBaselineAborts ==
    baseline = "notready" =>
        /\ pc = "panic"
        /\ outcome = "PreconditionFailed"
        /\ got = Nil /\ attempt = 0
        /\ writeLog = <<>>
        /\ store.rv = 1 + extWrites

C3_Witness ==
    /\ baseline = "notready"
    /\ outcome = "PreconditionFailed"
    /\ store = originalDeployment

(* C4: after the first wait timed out, the second wait runs only after     *)
(* the rollback Update was accepted; when the second wait returns nil main *)
(* ends normally with "Rolled back successfully", and with no other writer *)
(* the record's image is the image of the copy taken at the start.         *)
C4_TimeoutThenRolledBack ==
    fwdErr = "timeout" =>
        /\ (pc \in {"rb_wait", "rb_waited"} \/ rbErr # "unset") =>
               writeLog = <<"fwd_deploy", "rb_deploy">>
        /\ rbErr = "nil" =>
               /\ pc = "done"
               /\ outcome = "RolledBack"
               /\ extWrites = 0 =>
                      store.image = originalDeployment.image

C4_Witness ==
    /\ fwdErr = "timeout"
    /\ rbErr = "nil"
    /\ outcome = "RolledBack"
    /\ extWrites = 0
    /\ store.image = ManifestImage

(* C5: when both waits timed out main has ended with RollbackFailed, an    *)
(* outcome other than Success and RolledBack, and takes no further step.   *)
C5_BothWaitsFailIsFatal ==
    (fwdErr = "timeout" /\ rbErr = "timeout") =>
        /\ pc = "panic"
        /\ outcome = "RollbackFailed"
        /\ outcome \notin {"Success", "RolledBack"}
        /\ writeLog = <<"fwd_deploy", "rb_deploy">>
        /\ ~ENABLED Next

C5_Witness ==
    /\ fwdErr = "timeout"
    /\ rbErr = "timeout"
    /\ outcome = "RollbackFailed"

C6_OneWriteFromLatest ==
    /\ InDeploy => attempt < DefaultRetrySteps
    /\ DeployReturned =>
        /\ attempt \in 1..DefaultRetrySteps
        /\ deployErr = "Conflict" => attempt = DefaultRetrySteps
        /\ deployErr = "nil" =>
            /\ WritesOf(CallPhase) = 1
            /\ got = before
            /\ result = [got EXCEPT !.image =
                            IF pc = "fwd_deployed" THEN NewImage
                            ELSE originalDeployment.image]
            /\ written = [result EXCEPT !.rv = got.rv + 1]

(* C6: a deploy call returns: it gives up on conflicts only after          *)
(* DefaultRetrySteps attempts, so any shorter run of conflicts ends in     *)
(* success; a call that returned nil had exactly one Update accepted, and  *)
(* that Update is the op applied to the object got in the same attempt,    *)
(* which was the record as it stood when the Update was accepted.          *)
C6_RetryThenOneWrite ==
    /\ []C6_OneWriteFromLatest
    /\ InDeploy ~> (DeployReturned \/ outcome = "GetLatestPanic")

C6_Witness ==
    /\ pc = "rb_deployed"
    /\ deployErr = "nil"
    /\ attempt = DefaultRetrySteps
    /\ written.image # before.image

(* C7: a deploy call whose every Update met a conflict returns the         *)
(* conflict after DefaultRetrySteps attempts and stops; none of its        *)
(* Updates was accepted, so no version of the record comes from it.        *)
C7_ExhaustedLeavesNoWrite ==
    deployErr = "Conflict" =>
        /\ ~InDeploy
        /\ attempt = DefaultRetrySteps
        /\ before = Nil /\ written = Nil
        /\ WritesOf("rb_deploy") = 0
        /\ fwdErr = "unset" => writeLog = <<>>
        /\ pc = "panic" => outcome = "Conflict"
        /\ VersionsAccounted
        /\ extWrites >= DefaultRetrySteps

C7_Witness ==
    /\ deployErr = "Conflict"
    /\ pc = "fwd_deployed"
    /\ writeLog = <<>>

(* C8: a failure of Get or Update inside deploy that is not a conflict     *)
(* reaches main as the value deploy returns: main never ends on such a     *)
(* failure before deploy has returned it.                                  *)
C8_StoreFailureIsReturned ==
    outcome \in {"GetLatestPanic", "UpdateError"} =>
        deployErr = outcome

(* C9: a failed pod query does not end the wait unless the deadline has    *)
(* passed, and a query that shows all pods ready ends the wait with nil    *)
(* however many failed queries came before it.                             *)
C9_ErrorsAreTolerated ==
    (InOrAfterWait /\ polls > 0) =>
        /\ (lastList.err /\ now <= deployRunningThreshold) =>
               (InWait /\ waitErr = "unset")
        /\ ShownReady(lastList) =>
               (waitErr = "nil" /\ tolerated \in 0..(polls - 1))

C9_Witness ==
    /\ pc = "fwd_waited"
    /\ waitErr = "nil"
    /\ tolerated >= 2
    /\ ShownReady(lastList)
    /\ now <= deployRunningThreshold

C10_TimeoutOnlyPastDeadline ==
    /\ waitErr \in {"unset", "nil", "timeout"}
    /\ waitErr = "timeout" =>
           /\ now > deployRunningThreshold
           /\ lastList.err \/ ShownNotReady(lastList)
    /\ (pc \in {"fwd_waited", "rb_waited"} /\ errStreak = polls) =>
           waitErr = "timeout"

(* C10: every wait ends, with nil or with the timeout; it returns the      *)
(* timeout only when the deadline has passed and its last query did not    *)
(* show the pods ready, and a wait whose every query failed returns the    *)
(* timeout.                                                                *)
C10_WaitTerminates ==
    /\ []C10_TimeoutOnlyPastDeadline
    /\ InWait ~> ~InWait

C10_Witness ==
    /\ pc = "rb_waited"
    /\ waitErr = "timeout"
    /\ errStreak = polls
    /\ polls >= 4

\* the first query of a wait showed all pods ready
FirstPollReady == InOrAfterWait /\ polls = 1 /\ ShownReady(lastList)

(* C11, as stated: a wait whose first query shows all pods ready returns   *)
(* nil after that one query, no later than one interval after it began.    *)
C11_FirstPollWithinInterval ==
    FirstPollReady =>
        /\ waitErr = "nil"
        /\ now <= deployRunningCheckInterval

(* C11, amended: a wait whose first query shows all pods ready returns nil *)
(* after that one query; the query is made at the first tick, so the wait  *)
(* returns no earlier than one interval after it began and no later than   *)
(* one interval plus the latency of the timer and the query.               *)
C11_FirstPollReturnsAtFirstTick ==
    FirstPollReady =>
        /\ pc \in {"fwd_waited", "rb_waited"}
        /\ waitErr = "nil"
        /\ now >= deployRunningCheckInterval
        /\ now <= deployRunningCheckInterval + MaxLatency

C11_Witness ==
    /\ FirstPollReady
    /\ waitErr = "nil"
    /\ now > deployRunningCheckInterval

\* a step of main from the return of a deploy call that failed
C12_FailedDeployStep ==
    (DeployReturned /\ deployErr \in {"UpdateError", "Conflict"}) =>
        /\ pc' = "panic"
        /\ outcome' = deployErr
        /\ UNCHANGED <<store, writeLog, waitVars>>

\* main ended on a failure of deploy: nothing of main follows, the wait
\* that would have come next never began, and no Update of the failed call
\* was accepted
C12_AbortedOnDeploy ==
    outcome \in {"UpdateError", "Conflict", "GetLatestPanic"} =>
        /\ pc = "panic"
        /\ ~ENABLED Next
        /\ waitErr = "unset" /\ now = 0 /\ rbErr = "unset"
        /\ fwdErr = "unset" => (writeLog = <<>> /\ polls = 1)
        /\ fwdErr # "unset" => (writeLog = <<"fwd_deploy">> /\ polls = 0)

(* C12: when a deploy call of main, the forward or the rollback one,       *)
(* fails with an Update error or with the conflict of an exhausted retry,  *)
(* main ends there: the wait that follows the call is not begun, the       *)
(* rollback deploy does not follow a failed forward deploy, and main       *)
(* writes the record no more.                                              *)
C12_DeployFailureAborts ==
    /\ [][C12_FailedDeployStep]_vars
    /\ []C12_AbortedOnDeploy

C12_Witness ==
    /\ outcome = "Conflict"
    /\ fwdErr = "timeout"
    /\ writeLog = <<"fwd_deploy">>

\* the copy is what the Get of line 36 returned, and is not changed after
C13_CopyTakenOnce ==
    /\ (pc = "get_original" /\ pc' = "precheck") =>
           originalDeployment' = store
    /\ originalDeployment # Nil => originalDeployment' = originalDeployment

\* the accepted Update of the rollback deploy carries the copy's image
C13_RollbackWritesCopy ==
    (pc = "rb_deployed" /\ written # Nil) =>
        written.image = originalDeployment.image

(* C13: main's copy of the deployment is taken once, by its first Get, and *)
(* never changes; the image the rollback deploy writes is the image of     *)
(* that copy, whatever other clients wrote to the record in between.       *)
C13_RollbackTargetIsSnapshot ==
    /\ [][C13_CopyTakenOnce]_vars
    /\ []C13_RollbackWritesCopy

C13_Witness ==
    /\ pc = "rb_deployed"
    /\ written # Nil
    /\ originalDeployment.image = ManifestImage
    /\ before.image = ExternalImage
    /\ written.image = ManifestImage
    /\ attempt >= 2

\* a step in which the record changes is an Update of main made from the
\* record as it stands, or a write of another client; while the object of
\* main is stale no step is an accepted Update of main
C14_WriteStep ==
    /\ writeLog' # writeLog =>
           /\ InDeploy
           /\ got = store
           /\ result.rv = store.rv
           /\ store' = [result EXCEPT !.rv = store.rv + 1]
    /\ (InDeploy /\ result # Nil /\ got # store) => writeLog' = writeLog
    /\ store' # store =>
           (writeLog' # writeLog \/ extWrites' = extWrites + 1)

\* the Update the API server accepted was computed from the record it
\* replaced
C14_AcceptedFromCurrent ==
    written # Nil =>
        /\ got = before
        /\ written.rv = before.rv + 1
        /\ written.replicas = before.replicas

(* C14: with other clients writing the record, every Update of deploy that *)
(* the API server accepts was computed from the version current at the     *)
(* moment of the Update; an Update computed from a version that another    *)
(* client has since replaced is not accepted, so no such write is lost.    *)
C14_NoLostUpdate ==
    /\ [][C14_WriteStep]_vars
    /\ []C14_AcceptedFromCurrent

C14_Witness ==
    /\ written # Nil
    /\ attempt = 3
    /\ extWrites >= 2
    /\ before.replicas # originalDeployment.replicas
    /\ written.replicas = before.replicas

\* the order of main's positions: each is left for the next only
StepOrder ==
    {<<"get_original", "precheck">>, <<"precheck", "fwd_deploy">>,
     <<"fwd_deploy", "fwd_deployed">>, <<"fwd_deployed", "fwd_wait">>,
     <<"fwd_wait", "fwd_waited">>, <<"fwd_waited", "rb_deploy">>,
     <<"rb_deploy", "rb_deployed">>, <<"rb_deployed", "rb_wait">>,
     <<"rb_wait", "rb_waited">>, <<"rb_waited", "done">>}

\* a step goes to the next position or ends main; an Update of main is
\* accepted only inside a deploy call and a pod query is made only by the
\* pre-check or inside a wait
C15_OrderedStep ==
    /\ pc' # pc => (<<pc, pc'>> \in StepOrder \/ pc' = "panic")
    /\ writeLog' # writeLog => (InDeploy /\ writeLog' = Append(writeLog, pc))
    /\ ((got' # Nil /\ got' # got) \/ attempt' > attempt) => InDeploy
    /\ polls' = polls + 1 => (InWait \/ pc = "precheck")
    /\ now' > now => InWait

\* while a wait polls no deploy call is in progress, and the other way
\* round; the Updates of main are accepted in the order of its calls
C15_OneAtATime ==
    /\ InOrAfterWait =>
           (got = Nil /\ result = Nil /\ attempt = 0 /\ written = Nil)
    /\ (InDeploy \/ DeployReturned) =>
           (now = 0 /\ waitErr = "unset" /\ lastList = NoList)
    /\ writeLog \in {<<>>, <<"fwd_deploy">>, <<"fwd_deploy", "rb_deploy">>}
    /\ pc \in {"fwd_wait", "fwd_waited", "rb_deploy"} =>
           writeLog = <<"fwd_deploy">>
    /\ pc \in {"rb_wait", "rb_waited", "done"} =>
           writeLog = <<"fwd_deploy", "rb_deploy">>

(* C15: main goes through its steps in the order copy, pre-check, forward  *)
(* deploy, first wait, rollback deploy, second wait, each begun after the  *)
(* one before it returned; no Update of main is made while a wait polls    *)
(* and no pod query is made while a deploy call is in progress.            *)
C15_StepsInOrder ==
    /\ [][C15_OrderedStep]_vars
    /\ []C15_OneAtATime

C15_Witness ==
    /\ pc = "rb_waited"
    /\ fwdErr = "timeout"
    /\ polls >= 2
    /\ extWrites >= 1

\* the image the op of the call in progress or just returned sets
OpImage == IF CallPhase = "fwd_deploy" THEN NewImage
           ELSE originalDeployment.image

(* C16: in both deploy calls the object passed to Update, and the object   *)
(* the API server accepted, is the object got in the same attempt with     *)
(* the image replaced and nothing else changed: replicas changed by        *)
(* another writer are written back as they were got.                       *)
C16_OnlyImageChanged ==
    /\ (InDeploy /\ result # Nil) =>
           result = [got EXCEPT !.image = OpImage]
    /\ (DeployReturned /\ written # Nil) =>
           /\ written.replicas = got.replicas
           /\ written = Accepted([got EXCEPT !.image = OpImage])

C16_Witness ==
    /\ pc = "rb_deployed"
    /\ written # Nil
    /\ got.replicas # originalDeployment.replicas
    /\ got.image # originalDeployment.image
    /\ written.replicas = got.replicas

\* the pre-check is one step: one query, no sleep, no write, and main
\* goes on exactly when the query succeeded and showed no pod not ready
C17_PreCheckStep ==
    pc = "precheck" =>
        /\ polls = 0 /\ polls' = 1
        /\ now' = now
        /\ store' = store /\ writeLog' = writeLog
        /\ baseline = "unset" /\ baseline' # "unset"
        /\ pc' = (IF baseline' = "ready" THEN "fwd_deploy" ELSE "panic")

\* a failed query of the pre-check ends main before deploy is entered, and
\* past the pre-check its one query was a success showing the pods ready
C17_AfterPreCheck ==
    /\ baseline = "error" =>
           /\ pc = "panic" /\ outcome = "PreconditionFailed"
           /\ ~ENABLED Next
           /\ polls = 1 /\ now = 0
           /\ got = Nil /\ result = Nil /\ attempt = 0
           /\ writeLog = <<>>
    /\ pc \in {"fwd_deploy", "fwd_deployed"} =>
           (baseline = "ready" /\ polls = 1 /\ now = 0)
    /\ outcome = "GetOriginalError" => baseline = "unset"
    /\ (pc \notin {"get_original", "precheck"}
          /\ outcome \notin {"GetOriginalError", "PreconditionFailed"})
           => baseline = "ready"

(* C17: the pre-check makes exactly one query of the pods and does not     *)
(* sleep or poll again; main goes on to the forward deploy only when that  *)
(* query succeeded and showed every container ready, and a failed query    *)
(* ends main with PreconditionFailed before any Get or Update of deploy.   *)
C17_PreCheckSingleShot ==
    /\ [][C17_PreCheckStep]_vars
    /\ []C17_AfterPreCheck

C17_Witness ==
    /\ baseline = "error"
    /\ outcome = "PreconditionFailed"
    /\ polls = 1
    /\ store = originalDeployment

\* the last query succeeded and showed no container flag false
LastPollRunning == ~lastList.err /\ ~ShownNotReady(lastList)

(* C18: a wait looks at the pods before it looks at the deadline: it       *)
(* returns only after at least one query, a query that finds the pods      *)
(* running ends it with nil also when the deadline has already passed,     *)
(* and the timeout is never the result of an iteration whose query found   *)
(* them running.                                                           *)
C18_ReadinessBeforeDeadline ==
    /\ pc \in {"fwd_waited", "rb_waited"} => polls >= 1
    /\ (InOrAfterWait /\ polls = 0) => (InWait /\ waitErr = "unset")
    /\ (InOrAfterWait /\ polls > 0 /\ LastPollRunning) =>
           (~InWait /\ waitErr = "nil")
    /\ (InOrAfterWait /\ waitErr = "timeout") => ~LastPollRunning

C18_Witness ==
    /\ pc \in {"fwd_waited", "rb_waited"}
    /\ LastPollRunning
    /\ now > deployRunningThreshold
    /\ waitErr = "nil"

\* the last answer lists a pod that has no container status
ShownPodWithoutStatus(resp) ==
    /\ ~resp.err
    /\ \E i \in 1..Len(resp.items) : Len(resp.items[i]) = 0

(* C19: podContainersRunning returns true exactly when its query succeeded *)
(* and no listed pod has a container flag false, a pod without container   *)
(* statuses counting as ready; on a failed query it returns false with     *)
(* the error. So a wait returns nil on exactly such an answer and never on *)
(* a failed query, and the pre-check lets main go on exactly on such an    *)
(* answer.                                                                 *)
C19_RunningIffNoFalseFlag ==
    /\ (InOrAfterWait /\ polls > 0) =>
           /\ (waitErr = "nil") <=> (~lastList.err /\ ~ShownNotReady(lastList))
           /\ lastList.err => waitErr \in {"unset", "timeout"}
           /\ ShownPodWithoutStatus(lastList) =>
                  ((waitErr = "nil") <=> ~ShownNotReady(lastList))
    /\ baseline \in {"error", "notready"} <=> outcome = "PreconditionFailed"

C19_Witness ==
    /\ pc \in {"fwd_waited", "rb_waited"}
    /\ waitErr = "nil"
    /\ ShownPodWithoutStatus(lastList)
    /\ Len(lastList.items) >= 2

(* C20: whenever main ends without a panic, its rollback Update was       *)
(* accepted after the forward one and its second wait returned nil,        *)
(* whether the first wait returned nil or the timeout; with no other       *)
(* writer the record's image is then the image of the copy taken at the    *)
(* start.                                                                  *)
C20_NormalEndIsRolledBack ==
    pc = "done" =>
        /\ outcome = "RolledBack"
        /\ fwdErr \in {"nil", "timeout"}
        /\ rbErr = "nil"
        /\ writeLog = <<"fwd_deploy", "rb_deploy">>
        /\ VersionsAccounted
        /\ extWrites = 0 =>
               store = [originalDeployment EXCEPT !.rv = @ + 2]

C20_Witness ==
    /\ pc = "done"
    /\ fwdErr = "nil"
    /\ extWrites = 0
    /\ store.image = originalDeployment.image
    /\ originalDeployment.image = ExternalImage

TypeOK ==
    /\ pc \in {"get_original", "precheck", "fwd_deploy", "fwd_deployed",
               "fwd_wait", "fwd_waited", "rb_deploy", "rb_deployed",
               "rb_wait", "rb_waited", "done", "panic"}
    /\ attempt \in 0..DefaultRetrySteps
    /\ store.image \in Images
    /\ lastList \in ListResponses
====
